---- MODULE Spec2Model ----
(***************************************************************************)
(* AsyncKinesisProducer (src/src/async_kinesis_client/kinesis_producer.py) *)
(* as a state machine: the producer's fields, the frame of a put_records   *)
(* call in progress, and the Kinesis endpoint as the environment that      *)
(* answers or fails each call.  Calls on the producer are serialized: a    *)
(* new call starts only when no call is in progress (pc = "idle").         *)
(*                                                                         *)
(* A bytes record is modelled as [id, len]: id tells records apart, len is *)
(* its length.  A key (str) is modelled by its length; NoKey is Python's   *)
(* None.                                                                   *)
(***************************************************************************)
EXTENDS Integers, Sequences, FiniteSets, TLC

\* ---------------------------------------------------------------- constants
MAX_RECORDS_IN_BATCH == 500
MAX_RECORD_SIZE == 1024 * 1024
MAX_BATCH_SIZE == 5 * MAX_RECORD_SIZE

\* The str seq is initialised to ('0').
InitialSeq == "0"

\* Python's None, as an argument and as the value flush() returns on an
\* empty buffer.  Endpoint responses are [id |-> k] with k >= 1.
NoKey == -1
None == [id |-> 0]

\* ------------------------------------------------------------------ bounds
\* Number of calls made on the producer in one behaviour.
MaxOps == 3

\* ------------------------------------------------------------------ inputs
\* Length of the key _get_default_partition_key() formats from two clocks.
DefaultKeyLen == 20
\* A short payload.
SmallLen == 10
\* A payload whose datum, with the default key, is exactly MAX_RECORD_SIZE.
FullLen == MAX_RECORD_SIZE - DefaultKeyLen
\* A payload one byte over the limit.
OverLen == MAX_RECORD_SIZE + 1
\* A caller's partition key so long that one datum outgrows a whole batch.
HugeKeyLen == MAX_BATCH_SIZE
\* A caller's explicit hash key (a decimal string of a 128-bit number).
HashKeyLen == 39

StreamNames == {"orders"}
SequenceNumbers == {"s1", "s2"}

Rep(k, x) == [i \in 1..k |-> x]

\* The put_records calls a caller makes: the payload lengths, the
\* partition_key and the explicit_hash_key.
ManyInputs ==
    { [lens |-> l, partition_key |-> NoKey, explicit_hash_key |-> NoKey] :
        l \in { <<>>, <<SmallLen>>, <<OverLen>>, <<MAX_RECORD_SIZE>>,
                <<SmallLen, OverLen, SmallLen>>, Rep(3, FullLen) } }
    \cup { [lens |-> <<SmallLen>>, partition_key |-> HugeKeyLen, explicit_hash_key |-> NoKey],
           [lens |-> <<SmallLen>>, partition_key |-> NoKey, explicit_hash_key |-> HashKeyLen] }

\* The long put_records calls, made on a fresh producer.
BulkCounts == {MAX_RECORDS_IN_BATCH - 1, MAX_RECORDS_IN_BATCH, MAX_RECORDS_IN_BATCH + 1,
               2 * MAX_RECORDS_IN_BATCH, 2 * MAX_RECORDS_IN_BATCH + 1}
BulkInputs ==
    { [lens |-> Rep(k, SmallLen), partition_key |-> NoKey, explicit_hash_key |-> NoKey] :
        k \in BulkCounts }

\* The put_record calls a caller makes.
SingleInputs ==
    { [len |-> SmallLen, partition_key |-> NoKey, explicit_hash_key |-> NoKey],
      [len |-> SmallLen, partition_key |-> 7, explicit_hash_key |-> HashKeyLen] }

\* ------------------------------------------------------------------- state
VARIABLES
    stream_name, ordered, seq, record_buf, buf_size,        \* self.*
    pc,                                                     \* "idle" or "put_records"
    records, idx, n, resp, partition_key, explicit_hash_key, \* put_records' frame
    putManyLog,     \* kinesis_client.put_records calls of the current/last call
    putOneLog,      \* every kinesis_client.put_record call so far
    delivered,      \* ids of the records of the successful put_records calls, in order
    nextId,         \* id of the next record a caller passes to put_records
    nresp,          \* number of endpoint responses so far
    last,           \* the current/last call: what, how it ended, the buffer before it
    prev,           \* the same of the call before it
    clean,          \* no endpoint call failed and no record was oversized so far
    inflight,       \* endpoint put_records calls awaited by calls that overlap
    ops             \* calls started so far

vars == << stream_name, ordered, seq, record_buf, buf_size, pc, records, idx, n, resp,
           partition_key, explicit_hash_key, putManyLog, putOneLog, delivered, nextId,
           nresp, last, prev, clean, inflight, ops >>

frame == << records, idx, n, resp, partition_key, explicit_hash_key >>

\* ----------------------------------------------------------------- helpers
\* utils._sizeof: a record's size is its length; a datum's size is the length
\* of its payload plus the length of its key.
_sizeof(obj) ==
    IF "Data" \in DOMAIN obj
    THEN obj.Data.len
         + (IF "PartitionKey" \in DOMAIN obj THEN obj.PartitionKey ELSE obj.ExplicitHashKey)
    ELSE obj.len

\* Truth value of an optional str argument: None and '' are false.
Truthy(key) == key > 0

_get_default_partition_key == DefaultKeyLen

\* Mutants of BufferFull: the flush comes one entry early; the comparison is
\* > instead of ==.
BufferFull_OneEarly(buf) == Len(buf) >= MAX_RECORDS_IN_BATCH - 1
BufferFull_Greater(buf) == Len(buf) > MAX_RECORDS_IN_BATCH

\* len(self.record_buf) == MAX_RECORDS_IN_BATCH
BufferFull(buf) == Len(buf) = MAX_RECORDS_IN_BATCH

\* Mutant of RecordTooBig: the record is held against the batch limit.
RecordTooBig_BatchLimit(record_size) == record_size > MAX_BATCH_SIZE

\* record_size > MAX_RECORD_SIZE
RecordTooBig(record_size) == record_size > MAX_RECORD_SIZE

\* self.buf_size + datum_size > MAX_BATCH_SIZE
BatchOverflow(size, datum_size) == size + datum_size > MAX_BATCH_SIZE

\* Mutant of UpdateSeq: self.seq is updated whatever self.ordered is.
UpdateSeq_Unconditional(ord, cur, response) == response.SequenceNumber

\* Mutant of UpdateSeq: self.seq is never updated.
UpdateSeq_Stale(ord, cur, response) == cur

\* put_record, after the endpoint answered: if self.ordered, self.seq becomes
\* the response's SequenceNumber.
UpdateSeq(ord, cur, response) == IF ord THEN response.SequenceNumber ELSE cur

\* Mutant of SeqAfterCall: a failed call resets self.seq.
SeqAfterCall_ResetOnFailure(ord, cur, ok, response) ==
    IF ok THEN UpdateSeq(ord, cur, response) ELSE InitialSeq

\* put_record, lines 65-67: the awaited endpoint call raises, and nothing
\* after it runs, or it answers and self.seq is updated.
SeqAfterCall(ord, cur, ok, response) ==
    IF ok THEN UpdateSeq(ord, cur, response) ELSE cur

\* The datum put_records builds for record r.
MakeDatum(r, pk, ehk) ==
    IF Truthy(ehk)
    THEN [Data |-> r, ExplicitHashKey |-> ehk]
    ELSE [Data |-> r,
          PartitionKey |-> IF Truthy(pk) THEN pk ELSE _get_default_partition_key]

Ids(buf) == [i \in 1..Len(buf) |-> buf[i].Data.id]

\* Mutants of flush: the buffer is not reset after the endpoint answered; the
\* empty buffer is sent too; the buffer is reset although the endpoint failed.
flush_NoReset(buf, size, name, ok, rid, cause) ==
    IF Len(buf) = 0
    THEN [raised |-> FALSE, ret |-> None, record_buf |-> buf, buf_size |-> size,
          calls |-> <<>>]
    ELSE [raised |-> ~ok, ret |-> IF ok THEN [id |-> rid] ELSE None,
          record_buf |-> buf, buf_size |-> size,
          calls |-> << [Records |-> buf, StreamName |-> name, ok |-> ok,
                        resp |-> IF ok THEN [id |-> rid] ELSE None, cause |-> cause] >>]

flush_NoEmptyCheck(buf, size, name, ok, rid, cause) ==
    IF ok
    THEN [raised |-> FALSE, ret |-> [id |-> rid], record_buf |-> <<>>, buf_size |-> 0,
          calls |-> << [Records |-> buf, StreamName |-> name, ok |-> TRUE,
                        resp |-> [id |-> rid], cause |-> cause] >>]
    ELSE [raised |-> TRUE, ret |-> None, record_buf |-> buf, buf_size |-> size,
          calls |-> << [Records |-> buf, StreamName |-> name, ok |-> FALSE,
                        resp |-> None, cause |-> cause] >>]

flush_ResetOnFailure(buf, size, name, ok, rid, cause) ==
    IF Len(buf) = 0
    THEN [raised |-> FALSE, ret |-> None, record_buf |-> buf, buf_size |-> size,
          calls |-> <<>>]
    ELSE [raised |-> ~ok, ret |-> IF ok THEN [id |-> rid] ELSE None,
          record_buf |-> <<>>, buf_size |-> 0,
          calls |-> << [Records |-> buf, StreamName |-> name, ok |-> ok,
                        resp |-> IF ok THEN [id |-> rid] ELSE None, cause |-> cause] >>]

\* Mutant of flush: record_buf is reset and buf_size is not.
flush_NoSizeReset(buf, size, name, ok, rid, cause) ==
    IF Len(buf) = 0
    THEN [raised |-> FALSE, ret |-> None, record_buf |-> buf, buf_size |-> size,
          calls |-> <<>>]
    ELSE [raised |-> ~ok, ret |-> IF ok THEN [id |-> rid] ELSE None,
          record_buf |-> IF ok THEN <<>> ELSE buf, buf_size |-> size,
          calls |-> << [Records |-> buf, StreamName |-> name, ok |-> ok,
                        resp |-> IF ok THEN [id |-> rid] ELSE None, cause |-> cause] >>]

\* Mutant of flush: the endpoint's response is not returned.
flush_ReturnsNone(buf, size, name, ok, rid, cause) ==
    IF Len(buf) = 0
    THEN [raised |-> FALSE, ret |-> None, record_buf |-> buf, buf_size |-> size,
          calls |-> <<>>]
    ELSE [raised |-> ~ok, ret |-> None,
          record_buf |-> IF ok THEN <<>> ELSE buf, buf_size |-> IF ok THEN 0 ELSE size,
          calls |-> << [Records |-> buf, StreamName |-> name, ok |-> ok,
                        resp |-> IF ok THEN [id |-> rid] ELSE None, cause |-> cause] >>]

\* flush(): on the buffer (buf, size), with the endpoint answering (ok) or
\* failing; rid is the id of the response it would give and cause says what
\* triggered the flush.  calls is the endpoint calls made (none or one).
flush(buf, size, name, ok, rid, cause) ==
    IF Len(buf) = 0
    THEN [raised |-> FALSE, ret |-> None, record_buf |-> buf, buf_size |-> size,
          calls |-> <<>>]
    ELSE IF ok
    THEN [raised |-> FALSE, ret |-> [id |-> rid], record_buf |-> <<>>, buf_size |-> 0,
          calls |-> << [Records |-> buf, StreamName |-> name, ok |-> TRUE,
                        resp |-> [id |-> rid], cause |-> cause] >>]
    ELSE [raised |-> TRUE, ret |-> None, record_buf |-> buf, buf_size |-> size,
          calls |-> << [Records |-> buf, StreamName |-> name, ok |-> FALSE,
                        resp |-> None, cause |-> cause] >>]

\* Mutant of Iterate: the record is validated before the count check.
Iterate_ValidateFirst(buf, size, rs, r, pk, ehk, name, ok, rid) ==
    LET f1 == IF BufferFull(buf)
              THEN flush(buf, size, name, ok, rid, "count")
              ELSE [raised |-> FALSE, ret |-> None, record_buf |-> buf,
                    buf_size |-> size, calls |-> <<>>]
        rs1 == IF BufferFull(buf) THEN Append(rs, f1.ret) ELSE rs
        datum == MakeDatum(r, pk, ehk)
        datum_size == _sizeof(datum)
        over == BatchOverflow(f1.buf_size, datum_size)
        f2 == IF over
              THEN flush(f1.record_buf, f1.buf_size, name, ok, rid, "size")
              ELSE [raised |-> FALSE, ret |-> None, record_buf |-> f1.record_buf,
                    buf_size |-> f1.buf_size, calls |-> <<>>]
        rs2 == IF over THEN Append(rs1, f2.ret) ELSE rs1
    IN  IF RecordTooBig(_sizeof(r))
        THEN [outcome |-> "ValueError", record_buf |-> buf, buf_size |-> size,
              resp |-> rs, calls |-> <<>>]
        ELSE IF f1.raised
        THEN [outcome |-> "EndpointError", record_buf |-> f1.record_buf,
              buf_size |-> f1.buf_size, resp |-> rs, calls |-> f1.calls]
        ELSE IF f2.raised
        THEN [outcome |-> "EndpointError", record_buf |-> f2.record_buf,
              buf_size |-> f2.buf_size, resp |-> rs1, calls |-> f1.calls \o f2.calls]
        ELSE [outcome |-> "next", record_buf |-> Append(f2.record_buf, datum),
              buf_size |-> f2.buf_size + datum_size, resp |-> rs2,
              calls |-> f1.calls \o f2.calls]

\* Mutant of Iterate: a failure of the endpoint in a flush is swallowed and
\* the record is buffered all the same.
Iterate_SwallowFailure(buf, size, rs, r, pk, ehk, name, ok, rid) ==
    LET f1 == IF BufferFull(buf)
              THEN flush(buf, size, name, ok, rid, "count")
              ELSE [raised |-> FALSE, ret |-> None, record_buf |-> buf,
                    buf_size |-> size, calls |-> <<>>]
        rs1 == IF BufferFull(buf) THEN Append(rs, f1.ret) ELSE rs
        datum == MakeDatum(r, pk, ehk)
        datum_size == _sizeof(datum)
        over == BatchOverflow(f1.buf_size, datum_size)
        f2 == IF over /\ ~f1.raised
              THEN flush(f1.record_buf, f1.buf_size, name, ok, rid, "size")
              ELSE [raised |-> FALSE, ret |-> None, record_buf |-> f1.record_buf,
                    buf_size |-> f1.buf_size, calls |-> <<>>]
        rs2 == IF over THEN Append(rs1, f2.ret) ELSE rs1
    IN  IF RecordTooBig(_sizeof(r))
        THEN [outcome |-> "ValueError", record_buf |-> f1.record_buf,
              buf_size |-> f1.buf_size, resp |-> rs1, calls |-> f1.calls]
        ELSE [outcome |-> "next", record_buf |-> Append(f2.record_buf, datum),
              buf_size |-> f2.buf_size + datum_size, resp |-> rs2,
              calls |-> f1.calls \o f2.calls]

\* One iteration of put_records' loop, for record r.  At most one of the two
\* flushes reaches the endpoint, so one answer (ok, rid) serves both.
Iterate(buf, size, rs, r, pk, ehk, name, ok, rid) ==
    LET f1 == IF BufferFull(buf)
              THEN flush(buf, size, name, ok, rid, "count")
              ELSE [raised |-> FALSE, ret |-> None, record_buf |-> buf,
                    buf_size |-> size, calls |-> <<>>]
        rs1 == IF BufferFull(buf) THEN Append(rs, f1.ret) ELSE rs
        record_size == _sizeof(r)
        datum == MakeDatum(r, pk, ehk)
        datum_size == _sizeof(datum)
        over == BatchOverflow(f1.buf_size, datum_size)
        f2 == IF over
              THEN flush(f1.record_buf, f1.buf_size, name, ok, rid, "size")
              ELSE [raised |-> FALSE, ret |-> None, record_buf |-> f1.record_buf,
                    buf_size |-> f1.buf_size, calls |-> <<>>]
        rs2 == IF over THEN Append(rs1, f2.ret) ELSE rs1
    IN  IF f1.raised
        THEN [outcome |-> "EndpointError", record_buf |-> f1.record_buf,
              buf_size |-> f1.buf_size, resp |-> rs, calls |-> f1.calls]
        ELSE IF RecordTooBig(record_size)
        THEN [outcome |-> "ValueError", record_buf |-> f1.record_buf,
              buf_size |-> f1.buf_size, resp |-> rs1, calls |-> f1.calls]
        ELSE IF f2.raised
        THEN [outcome |-> "EndpointError", record_buf |-> f2.record_buf,
              buf_size |-> f2.buf_size, resp |-> rs1, calls |-> f1.calls \o f2.calls]
        ELSE [outcome |-> "next", record_buf |-> Append(f2.record_buf, datum),
              buf_size |-> f2.buf_size + datum_size, resp |-> rs2,
              calls |-> f1.calls \o f2.calls]

\* The record ids the successful calls among cs delivered, in order.
RECURSIVE DeliveredBy(_)
DeliveredBy(cs) ==
    IF cs = <<>> THEN <<>>
    ELSE (IF Head(cs).ok THEN Ids(Head(cs).Records) ELSE <<>>) \o DeliveredBy(Tail(cs))

\* ------------------------------------------------------------------- Init
Init ==
    /\ stream_name \in StreamNames
    /\ ordered \in BOOLEAN
    /\ seq = InitialSeq
    /\ record_buf = <<>>
    /\ buf_size = 0
    /\ pc = "idle"
    /\ records = <<>>
    /\ idx = 1
    /\ n = 1
    /\ resp = <<>>
    /\ partition_key = NoKey
    /\ explicit_hash_key = NoKey
    /\ putManyLog = <<>>
    /\ putOneLog = <<>>
    /\ delivered = <<>>
    /\ nextId = 1
    /\ nresp = 0
    /\ last = [op |-> "init", outcome |-> "returned", ret |-> None,
               preBuf |-> <<>>, preSize |-> 0]
    /\ prev = last
    /\ clean = TRUE
    /\ inflight = <<>>
    /\ ops = 0

\* ----------------------------------------------------------------- actions
\* Mutant of put_record: the record is also appended to the buffer.
put_record_ViaBuffer ==
    /\ pc = "idle"
    /\ ops < MaxOps
    /\ \E in \in SingleInputs, ok \in BOOLEAN, sn \in SequenceNumbers :
        LET pk1 == IF in.partition_key = NoKey
                   THEN _get_default_partition_key ELSE in.partition_key
            pk2 == IF Truthy(pk1) THEN pk1 ELSE _get_default_partition_key
            kwargs == [StreamName |-> stream_name,
                       Data |-> [id |-> 0, len |-> in.len],
                       PartitionKey |-> pk2,
                       SequenceNumberForOrdering |-> IF ordered THEN seq ELSE "absent",
                       ExplicitHashKey |-> IF Truthy(in.explicit_hash_key)
                                           THEN in.explicit_hash_key ELSE NoKey]
            response == [id |-> nresp + 1, SequenceNumber |-> sn]
            datum == [Data |-> kwargs.Data, PartitionKey |-> pk2]
        IN  /\ putOneLog' = Append(putOneLog,
                    [kwargs |-> kwargs, ok |-> ok,
                     resp |-> IF ok THEN response ELSE [id |-> 0, SequenceNumber |-> "none"]])
            /\ seq' = SeqAfterCall(ordered, seq, ok, response)
            /\ record_buf' = Append(record_buf, datum)
            /\ buf_size' = buf_size + _sizeof(datum)
            /\ nresp' = IF ok THEN nresp + 1 ELSE nresp
            /\ last' = [op |-> "put_record",
                        outcome |-> IF ok THEN "returned" ELSE "EndpointError",
                        ret |-> IF ok THEN [id |-> nresp + 1] ELSE None,
                        preBuf |-> record_buf, preSize |-> buf_size]
            /\ clean' = (clean /\ ok)
    /\ prev' = last
    /\ ops' = ops + 1
    /\ putManyLog' = <<>>
    /\ UNCHANGED << stream_name, ordered, pc, frame, delivered, nextId, inflight >>

\* put_record(record, partition_key, explicit_hash_key)
put_record ==
    /\ pc = "idle"
    /\ ops < MaxOps
    /\ \E in \in SingleInputs, ok \in BOOLEAN, sn \in SequenceNumbers :
        LET pk1 == IF in.partition_key = NoKey
                   THEN _get_default_partition_key ELSE in.partition_key
            pk2 == IF Truthy(pk1) THEN pk1 ELSE _get_default_partition_key
            kwargs == [StreamName |-> stream_name,
                       Data |-> [id |-> 0, len |-> in.len],
                       PartitionKey |-> pk2,
                       SequenceNumberForOrdering |-> IF ordered THEN seq ELSE "absent",
                       ExplicitHashKey |-> IF Truthy(in.explicit_hash_key)
                                           THEN in.explicit_hash_key ELSE NoKey]
            response == [id |-> nresp + 1, SequenceNumber |-> sn]
        IN  /\ putOneLog' = Append(putOneLog,
                    [kwargs |-> kwargs, ok |-> ok,
                     resp |-> IF ok THEN response ELSE [id |-> 0, SequenceNumber |-> "none"]])
            /\ seq' = SeqAfterCall(ordered, seq, ok, response)
            /\ IF ok
               THEN /\ nresp' = nresp + 1
                    /\ last' = [op |-> "put_record", outcome |-> "returned",
                                ret |-> [id |-> nresp + 1],
                                preBuf |-> record_buf, preSize |-> buf_size]
                    /\ clean' = clean
               ELSE /\ UNCHANGED nresp
                    /\ last' = [op |-> "put_record", outcome |-> "EndpointError",
                                ret |-> None,
                                preBuf |-> record_buf, preSize |-> buf_size]
                    /\ clean' = FALSE
    /\ prev' = last
    /\ ops' = ops + 1
    /\ putManyLog' = <<>>
    /\ UNCHANGED << stream_name, ordered, record_buf, buf_size, pc, frame, delivered, nextId,
                    inflight >>

\* put_records(records, partition_key, explicit_hash_key): the call starts.
PutRecordsBegin(in) ==
    /\ pc = "idle"
    /\ ops < MaxOps
    /\ records' = [i \in 1..Len(in.lens) |-> [id |-> nextId + i - 1, len |-> in.lens[i]]]
    /\ partition_key' = in.partition_key
    /\ explicit_hash_key' = in.explicit_hash_key
    /\ resp' = <<>>
    /\ n' = 1
    /\ idx' = 1
    /\ nextId' = nextId + Len(in.lens)
    /\ pc' = "put_records"
    /\ putManyLog' = <<>>
    /\ last' = [op |-> "put_records", outcome |-> "running", ret |-> None,
                preBuf |-> record_buf, preSize |-> buf_size]
    /\ prev' = last
    /\ ops' = ops + 1
    /\ UNCHANGED << stream_name, ordered, seq, record_buf, buf_size, putOneLog,
                    delivered, nresp, clean, inflight >>

put_records_call == \E in \in ManyInputs : PutRecordsBegin(in)

put_records_bulk == ops = 0 /\ \E in \in BulkInputs : PutRecordsBegin(in)

\* put_records: one iteration of the loop.
put_records_loop ==
    /\ pc = "put_records"
    /\ idx <= Len(records)
    /\ \E ok \in BOOLEAN :
        LET it == Iterate(record_buf, buf_size, resp, records[idx], partition_key,
                          explicit_hash_key, stream_name, ok, nresp + 1)
        IN  /\ record_buf' = it.record_buf
            /\ buf_size' = it.buf_size
            /\ resp' = it.resp
            /\ putManyLog' = putManyLog \o it.calls
            /\ delivered' = delivered \o DeliveredBy(it.calls)
            /\ nresp' = nresp + Cardinality({i \in 1..Len(it.calls) : it.calls[i].ok})
            /\ IF it.outcome = "next"
               THEN /\ n' = n + 1
                    /\ idx' = idx + 1
                    /\ UNCHANGED << pc, last, clean >>
               ELSE /\ pc' = "idle"
                    /\ last' = [last EXCEPT !.outcome = it.outcome]
                    /\ clean' = FALSE
                    /\ UNCHANGED << n, idx >>
    /\ UNCHANGED << stream_name, ordered, seq, records, partition_key, explicit_hash_key,
                    putOneLog, nextId, prev, inflight, ops >>

\* put_records: the loop is over, return resp.
put_records_return ==
    /\ pc = "put_records"
    /\ idx > Len(records)
    /\ pc' = "idle"
    /\ last' = [last EXCEPT !.outcome = "returned", !.ret = resp]
    /\ UNCHANGED << stream_name, ordered, seq, record_buf, buf_size, frame, putManyLog,
                    putOneLog, delivered, nextId, nresp, prev, clean, inflight, ops >>

\* flush(), called by the caller.
flush_call ==
    /\ pc = "idle"
    /\ ops < MaxOps
    /\ \E ok \in BOOLEAN :
        LET f == flush(record_buf, buf_size, stream_name, ok, nresp + 1, "explicit")
        IN  /\ record_buf' = f.record_buf
            /\ buf_size' = f.buf_size
            /\ putManyLog' = f.calls
            /\ delivered' = delivered \o DeliveredBy(f.calls)
            /\ nresp' = nresp + Cardinality({i \in 1..Len(f.calls) : f.calls[i].ok})
            /\ last' = [op |-> "flush",
                        outcome |-> IF f.raised THEN "EndpointError" ELSE "returned",
                        ret |-> f.ret, preBuf |-> record_buf, preSize |-> buf_size]
            /\ clean' = (clean /\ ~f.raised)
    /\ prev' = last
    /\ ops' = ops + 1
    /\ UNCHANGED << stream_name, ordered, seq, pc, frame, putOneLog, nextId, inflight >>

Next ==
    \/ put_record
    \/ put_records_call
    \/ put_records_bulk
    \/ put_records_loop
    \/ put_records_return
    \/ flush_call

Spec == Init /\ [][Next]_vars

\* ------------------------------------------------------------------ claims
\* The ids 1 .. nextId - 1 of every record passed to put_records so far.
Offered == [i \in 1..(nextId - 1) |-> i]

IsManyCallDone == pc = "idle" /\ last.op = "put_records"

\* Position of the first record of the call that is over MAX_RECORD_SIZE
\* (0 if there is none).
FirstOversized ==
    IF \E j \in 1..Len(records) : records[j].len > MAX_RECORD_SIZE
    THEN CHOOSE j \in 1..Len(records) :
            /\ records[j].len > MAX_RECORD_SIZE
            /\ \A i \in 1..(j - 1) : records[i].len <= MAX_RECORD_SIZE
    ELSE 0

\* The ids of this call's records that are in the buffer or were delivered,
\* in that order.
KeptOfCall ==
    IF records = <<>> THEN <<>>
    ELSE SelectSeq(delivered \o Ids(record_buf), LAMBDA id : id >= records[1].id)

\* C1: with serialized calls, an endpoint that never fails and no record over
\* MAX_RECORD_SIZE, the records delivered by the endpoint calls so far
\* followed by the records still buffered are the records passed to
\* put_records, each once and in their order; after flush() the buffer is
\* empty and everything passed has been delivered.
C1_ExactlyOnceInOrder ==
    (pc = "idle" /\ clean) =>
        /\ delivered \o Ids(record_buf) = Offered
        /\ (last.op = "flush" =>
                record_buf = <<>> /\ buf_size = 0 /\ delivered = Offered)

\* Two put_records calls and a final flush(), with an auto-flush on the way.
C1_Witness ==
    /\ pc = "idle" /\ clean /\ ops = 3
    /\ last.op = "flush" /\ last.outcome = "returned" /\ last.preBuf # <<>>
    /\ prev.op = "put_records" /\ prev.preBuf # <<>>
    /\ nresp >= 2
    /\ Len(delivered) >= 6

\* C2: at rest the buffer holds at most MAX_RECORDS_IN_BATCH entries and
\* buf_size is at most MAX_BATCH_SIZE.
C2_BufferWithinLimits ==
    pc = "idle" =>
        /\ Len(record_buf) <= MAX_RECORDS_IN_BATCH
        /\ buf_size <= MAX_BATCH_SIZE

\* C3: a put_records call that meets a record over MAX_RECORD_SIZE raises;
\* neither that record nor a later one of the call is buffered or delivered
\* and the loop goes no further; when the error is the oversized-record
\* error, the records before it are each buffered or delivered, in order.
C3_OversizedRejected ==
    (IsManyCallDone /\ FirstOversized > 0) =>
        /\ last.outcome \in {"ValueError", "EndpointError"}
        /\ idx <= FirstOversized
        /\ \A i \in FirstOversized..Len(records) :
              \A k \in 1..Len(KeptOfCall) : KeptOfCall[k] # records[i].id
        /\ (last.outcome = "ValueError" =>
              /\ idx = FirstOversized
              /\ n = FirstOversized
              /\ KeptOfCall = [i \in 1..(FirstOversized - 1) |-> records[i].id])

\* The oversized record is the second of three: the first stays buffered.
C3_Witness ==
    /\ IsManyCallDone /\ FirstOversized = 2 /\ Len(records) = 3
    /\ last.outcome = "ValueError"
    /\ Len(record_buf) = Len(last.preBuf) + 1
    /\ last.preBuf # <<>>

SingleOversizedCall ==
    IsManyCallDone /\ Len(records) = 1 /\ records[1].len > MAX_RECORD_SIZE

BufferUntouched ==
    /\ record_buf = last.preBuf
    /\ buf_size = last.preSize
    /\ putManyLog = <<>>

\* C4 (as claimed): whatever the buffer holds, put_records of one oversized
\* record raises the oversized-record error, leaves the buffer as it was and
\* calls no endpoint.
C4_AnyBufferUntouched ==
    SingleOversizedCall => (last.outcome = "ValueError" /\ BufferUntouched)

\* C4 (amended): the same, for a buffer holding fewer than
\* MAX_RECORDS_IN_BATCH entries before the call.
C4_BelowCapUntouched ==
    (SingleOversizedCall /\ Len(last.preBuf) < MAX_RECORDS_IN_BATCH) =>
        (last.outcome = "ValueError" /\ BufferUntouched)

C4_Witness ==
    /\ SingleOversizedCall
    /\ last.preBuf # <<>> /\ Len(last.preBuf) < MAX_RECORDS_IN_BATCH
    /\ last.outcome = "ValueError"
    /\ record_buf = last.preBuf

\* C5: flush() on an empty buffer calls no endpoint and returns None; no
\* endpoint put_records call, of flush() or of put_records, gets an empty
\* batch.
C5_NoEmptyBatch ==
    /\ \A i \in 1..Len(putManyLog) : putManyLog[i].Records # <<>>
    /\ (last.op = "flush" /\ last.preBuf = <<>>) =>
          /\ putManyLog = <<>>
          /\ last.outcome = "returned"
          /\ last.ret = None
          /\ record_buf = <<>>

\* flush() on an empty buffer, right after a flush() that emptied it.
C5_Witness ==
    /\ last.op = "flush" /\ last.preBuf = <<>> /\ last.ret = None
    /\ prev.op = "flush" /\ prev.preBuf # <<>> /\ prev.outcome = "returned"

\* C6: a flush() the endpoint fails raises and leaves the buffer and buf_size
\* as they were; a flush() that then succeeds passes the endpoint exactly
\* those entries, returns its response and only then empties the buffer.
C6_FailedFlushKeepsBuffer ==
    /\ (last.op = "flush" /\ last.outcome = "EndpointError") =>
          /\ record_buf = last.preBuf
          /\ buf_size = last.preSize
          /\ Len(putManyLog) = 1
          /\ putManyLog[1].Records = last.preBuf
          /\ ~putManyLog[1].ok
    /\ (/\ last.op = "flush" /\ last.outcome = "returned"
        /\ prev.op = "flush" /\ prev.outcome = "EndpointError") =>
          /\ Len(putManyLog) = 1
          /\ putManyLog[1].Records = prev.preBuf
          /\ putManyLog[1].ok
          /\ last.ret = putManyLog[1].resp
          /\ record_buf = <<>>
          /\ buf_size = 0

\* Three buffered records, a failed flush(), then a successful one.
C6_Witness ==
    /\ last.op = "flush" /\ last.outcome = "returned"
    /\ prev.op = "flush" /\ prev.outcome = "EndpointError"
    /\ Len(prev.preBuf) = 3
    /\ record_buf = <<>>

\* C7: with ordered = True, the first put_record request carries the initial
\* '0' as SequenceNumberForOrdering, and a request that follows a successful
\* put_record carries the SequenceNumber of that call's response.
C7_OrderedTokenChain ==
    ordered =>
        \A k \in 1..Len(putOneLog) :
            /\ k = 1 => putOneLog[k].kwargs.SequenceNumberForOrdering = InitialSeq
            /\ (k >= 2 /\ putOneLog[k - 1].ok) =>
                  putOneLog[k].kwargs.SequenceNumberForOrdering
                      = putOneLog[k - 1].resp.SequenceNumber

\* Three successful put_record calls in a row, with changing sequence numbers.
C7_Witness ==
    /\ ordered
    /\ Len(putOneLog) = 3
    /\ \A k \in 1..3 : putOneLog[k].ok
    /\ putOneLog[1].resp.SequenceNumber # putOneLog[2].resp.SequenceNumber
    /\ putOneLog[3].kwargs.SequenceNumberForOrdering = putOneLog[2].resp.SequenceNumber

\* A put_records call of k short records with default keys, into an empty
\* buffer, that returned.
SmallBatchCallDone ==
    /\ IsManyCallDone /\ last.outcome = "returned"
    /\ last.preBuf = <<>>
    /\ Len(records) >= 1
    /\ partition_key = NoKey /\ explicit_hash_key = NoKey
    /\ \A i \in 1..Len(records) : records[i].len <= SmallLen

\* C8: such a call of k records makes floor((k - 1) / 500) flushes, each of
\* exactly 500 entries and each triggered by the count, and leaves
\* k - 500 * floor((k - 1) / 500) entries buffered: the buffer is flushed
\* before the 501st entry is added, never after the 500th.
C8_CountThreshold ==
    SmallBatchCallDone =>
        LET k == Len(records)
            q == (k - 1) \div MAX_RECORDS_IN_BATCH
        IN  /\ Len(putManyLog) = q
            /\ Len(last.ret) = q
            /\ \A i \in 1..q :
                  /\ Len(putManyLog[i].Records) = MAX_RECORDS_IN_BATCH
                  /\ putManyLog[i].cause = "count"
            /\ Len(record_buf) = k - MAX_RECORDS_IN_BATCH * q

\* 1001 records: two flushes of 500 and one record left.
C8_Witness ==
    /\ SmallBatchCallDone
    /\ Len(records) = 2 * MAX_RECORDS_IN_BATCH + 1
    /\ Len(putManyLog) = 2
    /\ Len(record_buf) = 1

\* 500 records: no flush, 500 entries resting in the buffer.
C8_WitnessAtCap ==
    /\ SmallBatchCallDone
    /\ Len(records) = MAX_RECORDS_IN_BATCH
    /\ putManyLog = <<>>
    /\ Len(record_buf) = MAX_RECORDS_IN_BATCH

\* The key length of the datum put_records builds in the call in progress.
CallKeyLen ==
    IF explicit_hash_key > 0 THEN explicit_hash_key
    ELSE IF partition_key > 0 THEN partition_key ELSE DefaultKeyLen

\* C9: an iteration of put_records that buffers a valid record (with the
\* buffer below the count limit): if buf_size plus the datum's size is over
\* MAX_BATCH_SIZE, the entries buffered so far go to the endpoint in one call
\* and the buffer then holds the new datum alone, buf_size being its size;
\* otherwise no endpoint call is made and the datum is appended.
C9_Iteration ==
    (/\ pc = "put_records" /\ idx <= Len(records)
     /\ Len(record_buf) # MAX_RECORDS_IN_BATCH
     /\ records[idx].len <= MAX_RECORD_SIZE
     /\ idx' = idx + 1) =>
        LET dsize == records[idx].len + CallKeyLen
        IN  IF buf_size + dsize > MAX_BATCH_SIZE
            THEN /\ Len(putManyLog') = Len(putManyLog) + 1
                 /\ putManyLog'[Len(putManyLog')].Records = record_buf
                 /\ Len(record_buf') = 1
                 /\ record_buf'[1].Data = records[idx]
                 /\ buf_size' = dsize
            ELSE /\ putManyLog' = putManyLog
                 /\ Len(record_buf') = Len(record_buf) + 1
                 /\ SubSeq(record_buf', 1, Len(record_buf)) = record_buf
                 /\ record_buf'[Len(record_buf')].Data = records[idx]
                 /\ buf_size' = buf_size + dsize

C9_SizeTriggeredFlush == [][C9_Iteration]_vars

\* C10: a put_records call that returns, returns the responses of the
\* endpoint calls made during it, in their order: as many elements as calls,
\* none of them None.
C10_ReturnsFlushResponses ==
    (IsManyCallDone /\ last.outcome = "returned") =>
        /\ Len(last.ret) = Len(putManyLog)
        /\ \A i \in 1..Len(last.ret) :
              /\ last.ret[i] # None
              /\ last.ret[i] = putManyLog[i].resp

\* The size of a buffered datum as the data model defines it: the length of
\* its payload plus the length of its key.
DatumSize(d) ==
    d.Data.len + (IF "PartitionKey" \in DOMAIN d THEN d.PartitionKey ELSE d.ExplicitHashKey)

\* The sum of the sizes of buf[lo..hi].
RECURSIVE SizeSum(_, _, _)
SizeSum(buf, lo, hi) ==
    IF lo > hi THEN 0
    ELSE IF lo = hi THEN DatumSize(buf[lo])
    ELSE LET mid == (lo + hi) \div 2
         IN  SizeSum(buf, lo, mid) + SizeSum(buf, mid + 1, hi)

\* C11: buf_size is the sum of the sizes of the datums in the buffer, at rest
\* and between the iterations of put_records, also after a call that raised;
\* it is 0 exactly when the buffer is empty.
C11_SizeIsSumOfEntries ==
    /\ buf_size = SizeSum(record_buf, 1, Len(record_buf))
    /\ (buf_size = 0) <=> (record_buf = <<>>)

\* At rest after a put_records call that raised, with entries of different
\* sizes in the buffer.
C11_Witness ==
    /\ IsManyCallDone /\ last.outcome \in {"ValueError", "EndpointError"}
    /\ Len(record_buf) >= 2
    /\ DatumSize(record_buf[1]) # DatumSize(record_buf[Len(record_buf)])
    /\ buf_size = SizeSum(record_buf, 1, Len(record_buf))

\* C12: no datum in the buffer is larger (payload plus key) than
\* MAX_RECORD_SIZE.
C12_NoOversizedDatum ==
    \A i \in 1..Len(record_buf) : DatumSize(record_buf[i]) <= MAX_RECORD_SIZE

\* A put_records call whose first record is oversized, made with exactly
\* MAX_RECORDS_IN_BATCH entries in the buffer, has ended.
OversizedAtCapDone ==
    /\ IsManyCallDone
    /\ Len(last.preBuf) = MAX_RECORDS_IN_BATCH
    /\ Len(records) >= 1
    /\ records[1].len > MAX_RECORD_SIZE

\* C13: the count check comes before the size validation: such a call first
\* passes the 500 entries to the endpoint in one call; when the endpoint
\* answers, the buffer is emptied, the call then raises the oversized-record
\* error and the buffer stays empty (when the endpoint fails, its error is
\* raised and the buffer is kept).
C13_CountFlushBeforeValidation ==
    OversizedAtCapDone =>
        /\ Len(putManyLog) = 1
        /\ putManyLog[1].Records = last.preBuf
        /\ putManyLog[1].cause = "count"
        /\ IF putManyLog[1].ok
           THEN /\ last.outcome = "ValueError"
                /\ idx = 1
                /\ record_buf = <<>>
                /\ buf_size = 0
                /\ Len(delivered) >= MAX_RECORDS_IN_BATCH
                /\ SubSeq(delivered, Len(delivered) - MAX_RECORDS_IN_BATCH + 1,
                          Len(delivered)) = Ids(last.preBuf)
           ELSE /\ last.outcome = "EndpointError"
                /\ record_buf = last.preBuf
                /\ buf_size = last.preSize

C13_Witness ==
    /\ OversizedAtCapDone
    /\ putManyLog # <<>> /\ putManyLog[1].ok
    /\ last.outcome = "ValueError"
    /\ record_buf = <<>>

\* A put_records call in which an endpoint call failed has ended.
AutoFlushFailed ==
    /\ IsManyCallDone
    /\ \E i \in 1..Len(putManyLog) : ~putManyLog[i].ok

\* C14: when the endpoint fails an auto-flush of put_records, the call raises
\* the endpoint's error at once (the failed call is its last endpoint call);
\* the buffer holds exactly the entries passed to the failed call, which are
\* what it held before the call (or what was buffered since the last flush)
\* plus the records of this call already appended, with buf_size their sum;
\* the record that triggered the flush and the later ones are not buffered.
C14_AutoFlushFailure ==
    AutoFlushFailed =>
        LET c == putManyLog[Len(putManyLog)]
        IN  /\ last.outcome = "EndpointError"
            /\ ~c.ok
            /\ \A i \in 1..(Len(putManyLog) - 1) : putManyLog[i].ok
            /\ record_buf = c.Records
            /\ buf_size = SizeSum(record_buf, 1, Len(record_buf))
            /\ idx <= Len(records)
            /\ KeptOfCall = [i \in 1..(idx - 1) |-> records[i].id]
            /\ Len(putManyLog) = 1 =>
                  Ids(record_buf)
                      = Ids(last.preBuf) \o [i \in 1..(idx - 1) |-> records[i].id]

\* The third record of the call triggers a size flush of three earlier
\* entries and two of this call, and the endpoint fails.
C14_Witness ==
    /\ AutoFlushFailed
    /\ last.outcome = "EndpointError"
    /\ idx = 3 /\ Len(records) = 3
    /\ Len(last.preBuf) = 3
    /\ Len(record_buf) = 5
    /\ putManyLog[1].cause = "size"

Token(k) == putOneLog[k].kwargs.SequenceNumberForOrdering

\* The SequenceNumber of the last put_record before the k-th that the
\* endpoint answered, or the initial '0'.
LastAnswered(k) ==
    LET S == {j \in 1..(k - 1) : putOneLog[j].ok}
    IN  IF S = {} THEN InitialSeq
        ELSE putOneLog[CHOOSE j \in S : \A i \in S : i <= j].resp.SequenceNumber

\* C15: a put_record the endpoint fails raises after that one endpoint call
\* and leaves self.seq as it was; with ordered = True the next request
\* carries the token the failed request carried, which is the SequenceNumber
\* of the last answered call or the initial '0'.
C15_FailedPutRecordKeepsToken ==
    /\ Len(putOneLog) <= ops
    /\ (last.op = "put_record" /\ ~putOneLog[Len(putOneLog)].ok) =>
          /\ last.outcome = "EndpointError"
          /\ seq = IF ordered THEN Token(Len(putOneLog)) ELSE InitialSeq
    /\ ordered =>
          \A k \in 1..Len(putOneLog) :
              /\ Token(k) = LastAnswered(k)
              /\ (k >= 2 /\ ~putOneLog[k - 1].ok) => Token(k) = Token(k - 1)

\* An answered call, a failed call, and a third call carrying the first
\* call's sequence number.
C15_Witness ==
    /\ ordered
    /\ Len(putOneLog) = 3
    /\ putOneLog[1].ok /\ ~putOneLog[2].ok
    /\ Token(3) = putOneLog[1].resp.SequenceNumber
    /\ Token(3) # InitialSeq

\* C16: with ordered = False no put_record request carries a
\* SequenceNumberForOrdering and self.seq keeps its initial '0', whatever
\* was called and whatever the endpoint answered.
C16_UnorderedKeepsSentinel ==
    ~ordered =>
        /\ seq = InitialSeq
        /\ \A k \in 1..Len(putOneLog) :
              putOneLog[k].kwargs.SequenceNumberForOrdering = "absent"

\* An answered put_record, then put_records and flush().
C16_Witness ==
    /\ ~ordered
    /\ Len(putOneLog) = 1 /\ putOneLog[1].ok
    /\ putOneLog[1].resp.SequenceNumber # InitialSeq
    /\ prev.op = "put_records"
    /\ last.op = "flush" /\ last.outcome = "returned"
    /\ seq = InitialSeq

\* --------------------------------------------------- overlapping calls
\* Calls made from several tasks of one event loop.  A task runs alone up to
\* its next awaited endpoint call; while it waits there, other tasks run.
\* inflight holds the endpoint put_records calls being awaited, each with the
\* Records it was given when it was made.

\* The put_records calls the overlapping tasks make.
OverlapInputs ==
    { [lens |-> l, partition_key |-> NoKey, explicit_hash_key |-> NoKey] :
        l \in { <<SmallLen>>, Rep(3, FullLen) } }

Remove(s, i) == SubSeq(s, 1, i - 1) \o SubSeq(s, i + 1, Len(s))

\* Mutant of flush_resume: the buffer is left as it is when the call returns.
flush_resume_NoReset(buf, size, ok, rid) ==
    IF ok
    THEN [raised |-> FALSE, ret |-> [id |-> rid], record_buf |-> buf, buf_size |-> size]
    ELSE [raised |-> TRUE, ret |-> None, record_buf |-> buf, buf_size |-> size]

\* flush() from the point where its awaited endpoint call returns or raises:
\* buf and size are the buffer as it is at that moment.
flush_resume(buf, size, ok, rid) ==
    IF ok
    THEN [raised |-> FALSE, ret |-> [id |-> rid], record_buf |-> <<>>, buf_size |-> 0]
    ELSE [raised |-> TRUE, ret |-> None, record_buf |-> buf, buf_size |-> size]

\* A task calls put_records while no other put_records call is running.
put_records_overlap == \E in \in OverlapInputs : PutRecordsBegin(in)

\* put_records: one iteration of the loop, up to the endpoint call of its
\* flush if it makes one.
put_records_step ==
    /\ pc = "put_records"
    /\ idx <= Len(records)
    /\ LET it == Iterate(record_buf, buf_size, resp, records[idx], partition_key,
                         explicit_hash_key, stream_name, TRUE, 0)
       IN  IF it.calls = <<>>
           THEN /\ record_buf' = it.record_buf
                /\ buf_size' = it.buf_size
                /\ resp' = it.resp
                /\ IF it.outcome = "next"
                   THEN /\ n' = n + 1
                        /\ idx' = idx + 1
                        /\ UNCHANGED << pc, last, clean >>
                   ELSE /\ pc' = "idle"
                        /\ last' = [last EXCEPT !.outcome = it.outcome]
                        /\ clean' = FALSE
                        /\ UNCHANGED << n, idx >>
                /\ UNCHANGED inflight
           ELSE /\ inflight' = Append(inflight,
                        [Records |-> it.calls[1].Records, StreamName |-> stream_name,
                         owner |-> "put_records", cause |-> it.calls[1].cause])
                /\ pc' = "awaiting"
                /\ UNCHANGED << record_buf, buf_size, resp, n, idx, last, clean >>
    /\ UNCHANGED << stream_name, ordered, seq, records, partition_key, explicit_hash_key,
                    putManyLog, putOneLog, delivered, nextId, nresp, prev, ops >>

\* put_records: the endpoint call of its flush returns or raises, and the
\* iteration goes on from there.  After a flush for the count the buffer is
\* empty, so the rest of the iteration (lines 91-114) is Iterate on it.
put_records_resume ==
    /\ pc = "awaiting"
    /\ \E i \in 1..Len(inflight) : \E ok \in BOOLEAN :
        LET c == inflight[i]
            f == flush_resume(record_buf, buf_size, ok, nresp + 1)
            datum == MakeDatum(records[idx], partition_key, explicit_hash_key)
            it == Iterate(f.record_buf, f.buf_size, Append(resp, f.ret), records[idx],
                          partition_key, explicit_hash_key, stream_name, TRUE, 0)
        IN  /\ c.owner = "put_records"
            /\ inflight' = Remove(inflight, i)
            /\ delivered' = IF ok THEN delivered \o Ids(c.Records) ELSE delivered
            /\ nresp' = IF ok THEN nresp + 1 ELSE nresp
            /\ IF f.raised
               THEN /\ pc' = "idle"
                    /\ last' = [last EXCEPT !.outcome = "EndpointError"]
                    /\ clean' = FALSE
                    /\ UNCHANGED << record_buf, buf_size, resp, n, idx >>
               ELSE IF c.cause = "size"
               THEN /\ record_buf' = Append(f.record_buf, datum)
                    /\ buf_size' = f.buf_size + _sizeof(datum)
                    /\ resp' = Append(resp, f.ret)
                    /\ n' = n + 1
                    /\ idx' = idx + 1
                    /\ pc' = "put_records"
                    /\ UNCHANGED << last, clean >>
               ELSE /\ record_buf' = it.record_buf
                    /\ buf_size' = it.buf_size
                    /\ resp' = it.resp
                    /\ IF it.outcome = "next"
                       THEN /\ n' = n + 1
                            /\ idx' = idx + 1
                            /\ pc' = "put_records"
                            /\ UNCHANGED << last, clean >>
                       ELSE /\ pc' = "idle"
                            /\ last' = [last EXCEPT !.outcome = it.outcome]
                            /\ clean' = FALSE
                            /\ UNCHANGED << n, idx >>
    /\ UNCHANGED << stream_name, ordered, seq, records, partition_key, explicit_hash_key,
                    putManyLog, putOneLog, nextId, prev, ops >>

\* A task calls flush(): it returns at once on an empty buffer, and else
\* makes its endpoint call with the buffer as it is and waits.
flush_begin ==
    /\ pc # "put_records"
    /\ ops < MaxOps
    /\ inflight' = IF Len(record_buf) = 0
                   THEN inflight
                   ELSE Append(inflight,
                            [Records |-> record_buf, StreamName |-> stream_name,
                             owner |-> "flush", cause |-> "explicit"])
    /\ ops' = ops + 1
    /\ UNCHANGED << stream_name, ordered, seq, record_buf, buf_size, pc, frame,
                    putManyLog, putOneLog, delivered, nextId, nresp, last, prev, clean >>

\* The endpoint call of a waiting flush() returns or raises.
flush_end ==
    /\ pc # "put_records"
    /\ \E i \in 1..Len(inflight) : \E ok \in BOOLEAN :
        LET c == inflight[i]
            f == flush_resume(record_buf, buf_size, ok, nresp + 1)
        IN  /\ c.owner = "flush"
            /\ inflight' = Remove(inflight, i)
            /\ record_buf' = f.record_buf
            /\ buf_size' = f.buf_size
            /\ delivered' = IF ok THEN delivered \o Ids(c.Records) ELSE delivered
            /\ nresp' = IF ok THEN nresp + 1 ELSE nresp
            /\ clean' = (clean /\ ~f.raised)
    /\ UNCHANGED << stream_name, ordered, seq, pc, frame, putManyLog, putOneLog,
                    nextId, last, prev, ops >>

NextOverlap ==
    \/ put_records_overlap
    \/ put_records_step
    \/ put_records_resume
    \/ put_records_return
    \/ flush_begin
    \/ flush_end

SpecOverlap == Init /\ [][NextOverlap]_vars

\* C17: calls on one producer that overlap in time break the guarantees of
\* the serialized use.  Whenever an endpoint call of a flush returns, the
\* batch it was given when it was made is delivered, whether or not another
\* flush was given the same entries, and no entry the buffer held at that
\* moment stays in it, whether or not it was in that batch.
C17_Step ==
    \A i \in 1..Len(inflight) :
        (inflight' = Remove(inflight, i) /\ nresp' = nresp + 1) =>
            /\ delivered' = delivered \o Ids(inflight[i].Records)
            /\ \A k \in 1..Len(record_buf) : \A j \in 1..Len(record_buf') :
                    record_buf'[j] # record_buf[k]

C17_OverlapBreaksGuarantees == [][C17_Step]_vars

\* No call failed and none is left running, and yet one record was delivered
\* twice and another is neither delivered nor buffered.
C17_Witness ==
    /\ pc = "idle" /\ inflight = <<>> /\ clean
    /\ \E i, j \in 1..Len(delivered) : i < j /\ delivered[i] = delivered[j]
    /\ \E id \in 1..(nextId - 1) :
        /\ \A i \in 1..Len(delivered) : delivered[i] # id
        /\ \A k \in 1..Len(record_buf) : record_buf[k].Data.id # id

\* C18: flush() on a non-empty buffer makes exactly one endpoint call, with
\* the entries buffered before the call, in their order, and the producer's
\* stream name; when the endpoint answers, flush() returns its response and
\* the buffer and buf_size are as after construction; the producer then
\* accepts put_records and flush() again (it has no terminal state).
C18_FlushNonEmpty ==
    /\ (last.op = "flush" /\ last.preBuf # <<>>) =>
          /\ Len(putManyLog) = 1
          /\ putManyLog[1].Records = last.preBuf
          /\ putManyLog[1].StreamName = stream_name
          /\ putManyLog[1].ok <=> (last.outcome = "returned")
          /\ last.outcome = "returned" =>
                /\ last.ret = putManyLog[1].resp
                /\ last.ret # None
                /\ record_buf = <<>>
                /\ buf_size = 0
    /\ (/\ last.op = "put_records"
        /\ prev.op = "flush" /\ prev.outcome = "returned") =>
          /\ last.preBuf = <<>>
          /\ last.preSize = 0
    /\ (pc = "idle" /\ ops < MaxOps) =>
          /\ ENABLED put_records_call
          /\ ENABLED flush_call

\* A flush() of a non-empty buffer, and a put_records call after it that
\* buffered a record.
C18_Witness ==
    /\ pc = "idle"
    /\ prev.op = "flush" /\ prev.outcome = "returned" /\ prev.preBuf # <<>>
    /\ last.op = "put_records" /\ last.outcome = "returned"
    /\ Len(record_buf) = 1

IsPutRecordStep == ops' = ops + 1 /\ last'.op = "put_record"

\* C19: a put_record call makes exactly one endpoint put_record call and no
\* endpoint put_records call, and leaves the buffer and buf_size as they
\* were, whether the endpoint answers or fails; every other step (of
\* put_records or flush) leaves self.seq and the put_record requests alone.
C19_Step ==
    /\ IsPutRecordStep =>
          /\ record_buf' = record_buf
          /\ buf_size' = buf_size
          /\ Len(putOneLog') = Len(putOneLog) + 1
          /\ putManyLog' = <<>>
          /\ delivered' = delivered
    /\ ~IsPutRecordStep =>
          /\ seq' = seq
          /\ putOneLog' = putOneLog

C19_SingleBypassesBatch == [][C19_Step]_vars

\* A put_record the endpoint answered while records pushed earlier by
\* put_records are still in the buffer, undelivered.
C19_Witness ==
    /\ last.op = "put_record" /\ last.outcome = "returned"
    /\ prev.op = "put_records"
    /\ record_buf # <<>> /\ record_buf = last.preBuf
    /\ delivered = <<>>
    /\ putOneLog[Len(putOneLog)].ok

====
